---- MODULE Spec2Model ----
(***************************************************************************)
(* Model of rubble's SimpleQueue (src/rubble/src/link/queue/               *)
(* simple_queue.rs): a single-slot packet queue built on a heapless        *)
(* single-producer/single-consumer ring with u8 indices.                   *)
(*                                                                         *)
(* One producer context runs free_space and produce_dyn, one consumer      *)
(* context runs has_data and consume_raw_with.  The two contexts           *)
(* interleave at the points where they touch the shared ring (the index    *)
(* loads and stores and the slot accesses); steps in between are local.    *)
(***************************************************************************)
EXTENDS Integers, Sequences, FiniteSets, TLC

(***************************************************************************)
(* Program constants.                                                      *)
(***************************************************************************)
\* crate::link::MIN_DATA_PAYLOAD_BUF: largest payload a slot can carry.
MIN_DATA_PAYLOAD_BUF == 27

\* Size of the serialized data::Header.
HEADER_SIZE == 2

\* crate::link::MIN_DATA_PDU_BUF: size of one slot, header plus payload.
MIN_DATA_PDU_BUF == HEADER_SIZE + MIN_DATA_PAYLOAD_BUF

\* Capacity of the ring: the U1 type parameter of spsc::Queue.
Capacity == 1

\* Width in bits of the ring's head and tail indices (the u8 parameter).
IndexBits == 8

IndexMod == 2 ^ IndexBits

(***************************************************************************)
(* Bounds of the model.                                                    *)
(***************************************************************************)
\* Number of PDUs the producer commits in one behaviour.
MaxPdus == 3

(***************************************************************************)
(* Input domains.                                                          *)
(***************************************************************************)
\* Values of data::Llid.
Llids == {"Reserved", "DataCont", "DataStart", "Control"}

\* Error values a callback may return (variants of crate::Error).
Errors == {"Eof", "InvalidValue"}

\* Values of the payload_bytes argument of produce_dyn (a u8).
PayloadBytesArgs == {0, MIN_DATA_PAYLOAD_BUF, MIN_DATA_PAYLOAD_BUF + 1, 255}

\* Number of bytes a build callback hands to the writer: up to one byte
\* more than the payload region holds.
WrittenCounts == 0 .. MIN_DATA_PAYLOAD_BUF + 1

\* A build callback writes the bytes seed+1, seed+2, ... (mod 256).
Seeds == {0}

\* Result values an inspect callback may return (Result<R, Error>).
InspectResults == {"OkR"} \cup Errors

(***************************************************************************)
(* Bytes and buffers.                                                      *)
(***************************************************************************)
Zeroes(n) == [i \in 1 .. n |-> 0]

Filled(n, b) == [i \in 1 .. n |-> b]

\* The bytes a build callback writes: w bytes starting after seed.
WrittenBytes(w, seed) == [i \in 1 .. w |-> (seed + i) % 256]

\* ByteWriter over a buffer of `space` bytes: write_slice of bytes `bs`
\* at position 0 of a zeroed region.  Returns the region and the space left;
\* a slice longer than the space is refused and nothing is written.
WriterWrite(space, bs) ==
    IF Len(bs) <= space
    THEN [ region |-> [i \in 1 .. space |-> IF i <= Len(bs) THEN bs[i] ELSE 0],
           space_left |-> space - Len(bs) ]
    ELSE [ region |-> Zeroes(space), space_left |-> space ]

\* The bytes of `bs` that arrived in the payload region.
Arrived(bs) ==
    LET free   == MIN_DATA_PDU_BUF - HEADER_SIZE
        writer == WriterWrite(free, bs)
    IN  SubSeq(writer.region, 1, free - writer.space_left)

(***************************************************************************)
(* data::Header: a 16 bit value, LLID in the low bits, payload length in   *)
(* the high byte, serialized little endian into two bytes.                 *)
(***************************************************************************)
\* The two bit encoding of an Llid.
LlidBits(llid) ==
    CASE llid = "Reserved"  -> 0
      [] llid = "DataCont"  -> 1
      [] llid = "DataStart" -> 2
      [] llid = "Control"   -> 3

LlidFromBits(b) ==
    CASE b = 0 -> "Reserved"
      [] b = 1 -> "DataCont"
      [] b = 2 -> "DataStart"
      [] b = 3 -> "Control"

HeaderNew(llid) == LlidBits(llid)

SetPayloadLength(h, len) == (len * 256) + (h % 256)

PayloadLength(h) == h \div 256

HeaderLlid(h) == LlidFromBits(h % 4)

HeaderToBytes(h) == << h % 256, h \div 256 >>

HeaderParse(raw) == raw[1] + 256 * raw[2]

\* `used as u8`
AsU8(n) == n % 256

(***************************************************************************)
(* ByteReader::read_slice: a bounds-checked read of len bytes at offset    *)
(* pos (0-based) of bytes.                                                  *)
(***************************************************************************)
ReadSliceOk(bytes, pos, len) == pos + len <= Len(bytes)

ReadSlice(bytes, pos, len) == SubSeq(bytes, pos + 1, pos + len)

(***************************************************************************)
(* heapless::spsc ring with wrapping u8 indices.                           *)
(***************************************************************************)
WrappingAdd(a, b) == (a + b) % IndexMod

WrappingSub(a, b) == (a - b + IndexMod) % IndexMod

\* Mutant of ProducerReady: the capacity is counted one too high.
ProducerReady_OffByOne(h, t) == WrappingAdd(h, Capacity + 1) # t

\* spsc::Producer::ready: there is room for one more item.
ProducerReady(h, t) == WrappingAdd(h, Capacity) # t

\* spsc::Consumer::ready: there is an item to dequeue.
ConsumerReady(h, t) == h # t

\* Mutant of EnqueueFull: enqueue keeps one cell of the ring unused.
EnqueueFull_OneLess(h, t) == WrappingSub(t, h) > Capacity - 2

\* spsc::Producer::enqueue refuses when the ring is full.
EnqueueFull(h, t) == WrappingSub(t, h) > Capacity - 1

\* Index of the cell an index value designates.
Cell(i) == i % Capacity

(***************************************************************************)
(* The decisions and computations of simple_queue.rs.                      *)
(***************************************************************************)
\* Mutant of FreeSpaceValue: the size of the whole slot is reported.
FreeSpaceValue_Pdu(h, t) ==
    IF ProducerReady(h, t) THEN AsU8(MIN_DATA_PDU_BUF) ELSE 0

\* free_space: room for one maximal payload, or none.
FreeSpaceValue(h, t) ==
    IF ProducerReady(h, t) THEN AsU8(MIN_DATA_PAYLOAD_BUF) ELSE 0

\* Mutant of PayloadBytesOk: the request is compared with the slot size.
PayloadBytesOk_Pdu(payload_bytes) == payload_bytes <= MIN_DATA_PDU_BUF

\* produce_dyn: assert!(usize::from(payload_bytes) <= MIN_DATA_PAYLOAD_BUF)
PayloadBytesOk(payload_bytes) == payload_bytes <= MIN_DATA_PAYLOAD_BUF

\* produce_dyn: if !self.inner.ready() { return Err(Error::Eof) }
NoRoom(h, t) == ~ProducerReady(h, t)

\* Mutant of BuildError: every callback error is reported as Eof.
BuildError_Eof(e) == "Eof"

\* produce_dyn: `f(&mut writer)?` hands the callback's error to the caller.
BuildError(e) == e

\* Mutant of EncodeSlot: the length is the space left, not the space used.
EncodeSlot_SpaceLeft(written, llid) ==
    LET free   == MIN_DATA_PDU_BUF - HEADER_SIZE
        writer == WriterWrite(free, written)
        header == SetPayloadLength(HeaderNew(llid), AsU8(writer.space_left))
    IN  HeaderToBytes(header) \o writer.region

\* Mutant of EncodeSlot: the writer is laid over the whole buffer, not over
\* the bytes after the header.
EncodeSlot_WholeBuf(written, llid) ==
    LET free   == MIN_DATA_PDU_BUF
        writer == WriterWrite(free, written)
        used   == free - writer.space_left
        header == SetPayloadLength(HeaderNew(llid), AsU8(used))
    IN  HeaderToBytes(header) \o writer.region

\* Mutant of EncodeSlot: the measured length counts the header bytes too.
EncodeSlot_CountsHeader(written, llid) ==
    LET free   == MIN_DATA_PDU_BUF - HEADER_SIZE
        writer == WriterWrite(free, written)
        used   == MIN_DATA_PDU_BUF - writer.space_left
        header == SetPayloadLength(HeaderNew(llid), AsU8(used))
    IN  HeaderToBytes(header) \o writer.region

\* produce_dyn: the local buffer after the build callback wrote `written`
\* and returned llid: zeroed, payload from byte 2 on, the header with the
\* measured length in bytes 0 and 1.
EncodeSlot(written, llid) ==
    LET free   == MIN_DATA_PDU_BUF - HEADER_SIZE
        writer == WriterWrite(free, written)
        used   == free - writer.space_left
        header == SetPayloadLength(HeaderNew(llid), AsU8(used))
    IN  HeaderToBytes(header) \o writer.region

\* Mutant of TailAfterEnqueue: the new tail index is never stored.
TailAfterEnqueue_Stuck(t) == t

\* enqueue: the tail index after the item was stored.
TailAfterEnqueue(t) == WrappingAdd(t, 1)

\* Mutant of HasDataValue: the producer's side of the ring is asked.
HasDataValue_Producer(h, t) == ProducerReady(h, t)

\* has_data: self.inner.ready()
HasDataValue(h, t) == ConsumerReady(h, t)

\* Mutant of PeekSome: peek hands out the cell whatever the indices say.
PeekSome_Always(h, t) == TRUE

\* Mutant of PeekSome: peek answers from the producer's view of the ring.
PeekSome_NotFull(h, t) == ProducerReady(h, t)

\* consume_raw_with: self.inner.peek() returns Some(packet)
PeekSome(h, t) == ConsumerReady(h, t)

\* Mutant of DecodeSlot: a length beyond the cell is cut to what is there.
DecodeSlot_Clamped(packet) ==
    LET raw_header == ReadSlice(packet, 0, HEADER_SIZE)
        header     == HeaderParse(raw_header)
        pl_len     == PayloadLength(header)
        room       == Len(packet) - HEADER_SIZE
    IN  [ ok |-> TRUE, header |-> header,
          payload |-> ReadSlice(packet, HEADER_SIZE,
                                IF pl_len <= room THEN pl_len ELSE room) ]

\* consume_raw_with: header and payload slice decoded from the peeked cell;
\* ok is FALSE when read_slice refuses the length.
DecodeSlot(packet) ==
    LET raw_header == ReadSlice(packet, 0, HEADER_SIZE)
        header     == HeaderParse(raw_header)
        pl_len     == PayloadLength(header)
    IN  IF ReadSliceOk(packet, HEADER_SIZE, pl_len)
        THEN [ ok |-> TRUE, header |-> header,
               payload |-> ReadSlice(packet, HEADER_SIZE, pl_len) ]
        ELSE [ ok |-> FALSE ]

\* Mutant of ConsumeReturn: the callback's result is swallowed.
ConsumeReturn_Ok(result) == "OkR"

\* consume_raw_with: the call returns res.result.
ConsumeReturn(result) == result

\* Mutant of CallOnce: the callback is called a second time.
CallOnce_Twice(n) == n + 2

\* produce_dyn and consume_raw_with: the one call `f(..)` of the callback,
\* counted on top of the n calls made before in the same call.
CallOnce(n) == n + 1

\* Mutant of DequeueWanted: the flag is ignored.
DequeueWanted_Always(consume) == TRUE

\* consume_raw_with: if res.consume { dequeue }
DequeueWanted(consume) == consume

\* Mutant of HeadAfterDequeue: the head index skips a cell.
HeadAfterDequeue_Skip(h) == WrappingAdd(h, 2)

\* Mutant of HeadAfterDequeue: the head index is not advanced.
HeadAfterDequeue_Stuck(h) == h

\* dequeue: the head index after the item was taken.
HeadAfterDequeue(h) == WrappingAdd(h, 1)

VARIABLES
    head,         \* ring: index of the next item to dequeue (consumer-owned)
    tail,         \* ring: index of the next free cell (producer-owned)
    buffer,       \* ring: the cells, each MIN_DATA_PDU_BUF bytes
    ppc,          \* producer: position in produce_dyn
    pn,           \* producer: the payload_bytes argument of the call in progress
    cpc,          \* consumer: position in consume_raw_with
    seen,         \* consumer: header and payload slice the inspect callback
                  \*           was given for the PDU at the head of the ring
    cresult,      \* consumer: res.result of the inspect callback, to be returned
    obs,          \* the step taken last, with its inputs and what it returned
    invoked,      \* how often the latest produce_dyn call and the latest
                  \* consume_raw_with call have called their callback
    cellPdu,      \* history: what the build callback produced for each cell
    nCommitted,   \* history: number of PDUs committed by produce_dyn
    outstanding,  \* history: PDUs committed and not yet removed
    removed,      \* history: PDUs removed by consume_raw_with, in order
    accepted      \* history: PDUs an inspect callback asked to remove, in order

ring == << head, tail, buffer >>

producer == << ppc, pn >>

consumer == << cpc, seen, cresult >>

history == << cellPdu, nCommitted, outstanding, removed, accepted >>

vars == << ring, producer, consumer, obs, invoked, history >>

None == "None"

\* No call of the operation has been made.
NoCall == -1

\* A call that has not returned yet.
Pending == "Pending"

\* The inspect callback has not been called for the PDU at the head.
NotSeen == [ called |-> FALSE ]

\* No PDU was written to a cell.
NoPdu == [ id |-> 0 ]

(***************************************************************************)
(* SimpleQueue::new followed by split: an empty ring.  The cells are       *)
(* uninitialized memory.                                                   *)
(***************************************************************************)
Uninit == { Zeroes(MIN_DATA_PDU_BUF), Filled(MIN_DATA_PDU_BUF, 255) }

Init ==
    /\ head = 0
    /\ tail = 0
    /\ buffer \in [0 .. Capacity - 1 -> Uninit]
    /\ ppc = "idle"
    /\ pn = 0
    /\ cpc = "idle"
    /\ seen = NotSeen
    /\ cresult = None
    /\ obs = [ step |-> "new" ]
    /\ invoked = [ build |-> NoCall, inspect |-> NoCall ]
    /\ cellPdu = [c \in 0 .. Capacity - 1 |-> NoPdu]
    /\ nCommitted = 0
    /\ outstanding = << >>
    /\ removed = << >>
    /\ accepted = << >>

(***************************************************************************)
(* SimpleProducer::free_space                                              *)
(***************************************************************************)
free_space ==
    /\ ppc = "idle"
    /\ obs' = [ step |-> "free_space", ret |-> FreeSpaceValue(head, tail) ]
    /\ UNCHANGED << ring, producer, consumer, invoked, history >>

(***************************************************************************)
(* SimpleProducer::produce_dyn, up to the ready check.                     *)
(***************************************************************************)
produce_check ==
    /\ ppc = "idle"
    /\ nCommitted < MaxPdus
    /\ \E payload_bytes \in PayloadBytesArgs :
          IF ~PayloadBytesOk(payload_bytes)
          THEN \* assert! fails: the call panics
               /\ ppc' = "panicked"
               /\ pn' = 0
               /\ obs' = [ step |-> "produce_check",
                           payload_bytes |-> payload_bytes, ret |-> "Panic" ]
          ELSE IF NoRoom(head, tail)
          THEN /\ ppc' = "idle"
               /\ pn' = 0
               /\ obs' = [ step |-> "produce_check",
                           payload_bytes |-> payload_bytes, ret |-> "Eof" ]
          ELSE /\ ppc' = "build"
               /\ pn' = payload_bytes
               /\ obs' = [ step |-> "produce_check",
                           payload_bytes |-> payload_bytes, ret |-> Pending ]
    /\ invoked' = [invoked EXCEPT !.build = 0]
    /\ UNCHANGED << ring, consumer, history >>

(***************************************************************************)
(* produce_dyn: the build callback fills a local buffer, the header is     *)
(* written in front of it and enqueue copies the buffer into the free      *)
(* cell.  The tail index is published by the next step.                    *)
(***************************************************************************)
produce_build ==
    /\ ppc = "build"
    /\ \E w \in WrittenCounts, seed \in Seeds, r \in Llids \cup Errors :
          IF r \in Errors
          THEN \* f(&mut writer)? returns the callback's error
               /\ ppc' = "idle"
               /\ pn' = 0
               /\ obs' = [ step |-> "produce_build", built |-> r,
                           wrote |-> (w > 0), ret |-> BuildError(r) ]
               /\ UNCHANGED << buffer, cellPdu >>
          ELSE IF EnqueueFull(head, tail)
          THEN \* enqueue fails and unwrap panics
               /\ ppc' = "panicked"
               /\ pn' = 0
               /\ obs' = [ step |-> "produce_build", built |-> r,
                           wrote |-> (w > 0), ret |-> "Panic" ]
               /\ UNCHANGED << buffer, cellPdu >>
          ELSE /\ ppc' = "publish"
               /\ pn' = pn
               /\ obs' = [ step |-> "produce_build", built |-> r,
                           wrote |-> (w > 0), ret |-> Pending ]
               /\ buffer' = [buffer EXCEPT ![Cell(tail)] =
                                EncodeSlot(WrittenBytes(w, seed), r)]
               /\ cellPdu' = [cellPdu EXCEPT ![Cell(tail)] =
                                [ id      |-> nCommitted + 1,
                                  llid    |-> r,
                                  offered |-> w,
                                  written |-> Arrived(WrittenBytes(w, seed)),
                                  payload_bytes |-> pn ]]
    /\ invoked' = [invoked EXCEPT !.build = CallOnce(@)]
    /\ UNCHANGED << head, tail, consumer, nCommitted, outstanding, removed,
                    accepted >>

(***************************************************************************)
(* produce_dyn: enqueue stores the new tail, which makes the cell visible  *)
(* to the consumer, and the call returns Ok.                               *)
(***************************************************************************)
produce_publish ==
    /\ ppc = "publish"
    /\ tail' = TailAfterEnqueue(tail)
    /\ ppc' = "idle"
    /\ pn' = 0
    /\ obs' = [ step |-> "produce_publish", ret |-> "Ok" ]
    /\ nCommitted' = nCommitted + 1
    /\ outstanding' = Append(outstanding,
                             [ id  |-> cellPdu[Cell(tail)].id,
                               pdu |-> buffer[Cell(tail)] ])
    /\ UNCHANGED << head, buffer, consumer, invoked, cellPdu, removed,
                    accepted >>

(***************************************************************************)
(* SimpleConsumer::has_data                                                *)
(***************************************************************************)
has_data ==
    /\ cpc = "idle"
    /\ obs' = [ step |-> "has_data", ret |-> HasDataValue(head, tail) ]
    /\ UNCHANGED << ring, producer, consumer, invoked, history >>

\* Mutant of consume_peek: the call waits until the producer has published.
consume_peek_Blocking ==
    /\ cpc = "idle"
    /\ PeekSome(head, tail)
    /\ cpc' = "inspect"
    /\ obs' = [ step |-> "consume_peek", ret |-> Pending ]
    /\ invoked' = [invoked EXCEPT !.inspect = 0]
    /\ UNCHANGED << ring, producer, seen, cresult, history >>

(***************************************************************************)
(* consume_raw_with: peek.                                                 *)
(***************************************************************************)
consume_peek ==
    /\ cpc = "idle"
    /\ IF PeekSome(head, tail)
       THEN /\ cpc' = "inspect"
            /\ obs' = [ step |-> "consume_peek", ret |-> Pending ]
       ELSE /\ cpc' = "idle"
            /\ obs' = [ step |-> "consume_peek", ret |-> "Eof" ]
    /\ invoked' = [invoked EXCEPT !.inspect = 0]
    /\ UNCHANGED << ring, producer, seen, cresult, history >>

(***************************************************************************)
(* consume_raw_with: the peeked cell is decoded and handed to the inspect  *)
(* callback, which answers with a result and the consume flag.             *)
(***************************************************************************)
consume_inspect ==
    /\ cpc = "inspect"
    /\ LET decoded == DecodeSlot(buffer[Cell(head)])
       IN  IF ~decoded.ok
           THEN \* read_slice(pl_len)? fails: the callback is not called
                /\ cpc' = "idle"
                /\ obs' = [ step |-> "consume_inspect", called |-> FALSE,
                            ret |-> "Eof" ]
                /\ UNCHANGED << seen, cresult, accepted, invoked >>
           ELSE /\ invoked' = [invoked EXCEPT !.inspect = CallOnce(@)]
                /\ seen' = [ called  |-> TRUE,
                             header  |-> decoded.header,
                             payload |-> decoded.payload ]
                /\ \E consume \in BOOLEAN, result \in InspectResults :
                      /\ accepted' = IF consume
                                     THEN Append(accepted, cellPdu[Cell(head)].id)
                                     ELSE accepted
                      /\ IF DequeueWanted(consume)
                         THEN /\ cpc' = "dequeue"
                              /\ cresult' = result
                              /\ obs' = [ step |-> "consume_inspect",
                                          called |-> TRUE, again |-> seen.called,
                                          consume |-> consume,
                                          result |-> result, ret |-> Pending ]
                         ELSE /\ cpc' = "idle"
                              /\ cresult' = None
                              /\ obs' = [ step |-> "consume_inspect",
                                          called |-> TRUE, again |-> seen.called,
                                          consume |-> consume,
                                          result |-> result,
                                          ret |-> ConsumeReturn(result) ]
    /\ UNCHANGED << ring, producer, cellPdu, nCommitted, outstanding, removed >>

(***************************************************************************)
(* consume_raw_with: the flag was set, the cell is dequeued and the        *)
(* callback's result returned.                                             *)
(***************************************************************************)
consume_dequeue ==
    /\ cpc = "dequeue"
    /\ IF ~ConsumerReady(head, tail)
       THEN \* dequeue returns None and unwrap panics
            /\ cpc' = "panicked"
            /\ obs' = [ step |-> "consume_dequeue", ret |-> "Panic" ]
            /\ UNCHANGED << head, outstanding, removed >>
       ELSE /\ head' = HeadAfterDequeue(head)
            /\ cpc' = "idle"
            /\ obs' = [ step |-> "consume_dequeue",
                        ret |-> ConsumeReturn(cresult) ]
            /\ removed' = Append(removed,
                 [ id     |-> cellPdu[Cell(head)].id,
                   intact |-> /\ outstanding # << >>
                              /\ Head(outstanding).id = cellPdu[Cell(head)].id
                              /\ Head(outstanding).pdu = buffer[Cell(head)] ])
            /\ outstanding' = IF outstanding = << >> THEN << >>
                              ELSE Tail(outstanding)
    /\ seen' = NotSeen
    /\ cresult' = None
    /\ UNCHANGED << tail, buffer, producer, invoked, cellPdu, nCommitted,
                    accepted >>

Next ==
    \/ free_space
    \/ produce_check
    \/ produce_build
    \/ produce_publish
    \/ has_data
    \/ consume_peek
    \/ consume_inspect
    \/ consume_dequeue

Spec == Init /\ [][Next]_vars

(***************************************************************************)
(* The driver loops of the two contexts: the consumer keeps calling        *)
(* consume_raw_with and its inspect accepts a queued PDU again and again;  *)
(* the producer keeps calling produce_dyn with a size in range and a build *)
(* that succeeds again and again.                                          *)
(***************************************************************************)
\* The sizes the retrying producer asks for: the largest in range, and one
\* beyond it.
RetryPayloadBytesArgs == {MIN_DATA_PAYLOAD_BUF, MIN_DATA_PAYLOAD_BUF + 1}

\* What its build callback does: hands over nothing or a full payload and
\* returns DataStart, or fails with Eof.
RetryWrittenCounts == {0, MIN_DATA_PAYLOAD_BUF}

RetryBuilt == {"DataStart", "Eof"}

\* What the inspect callback of the consuming driver returns.
RetryInspectResults == {"OkR", "Eof"}

\* produce_dyn up to the ready check, called by the retrying producer.
retry_produce_check ==
    /\ produce_check
    /\ obs'.payload_bytes \in RetryPayloadBytesArgs

\* produce_dyn from the build callback to the slot write, with the retrying
\* producer's callback.
retry_produce_build ==
    /\ produce_build
    /\ obs'.built \in RetryBuilt
    /\ ppc' = "publish" => cellPdu'[Cell(tail)].offered \in RetryWrittenCounts

\* consume_raw_with from the decode to the callback's answer, with the
\* consuming driver's callback.
retry_consume_inspect ==
    /\ consume_inspect
    /\ obs'.called => obs'.result \in RetryInspectResults

LiveNext ==
    \/ free_space
    \/ retry_produce_check
    \/ retry_produce_build
    \/ produce_publish
    \/ has_data
    \/ consume_peek
    \/ retry_consume_inspect
    \/ consume_dequeue

Fairness ==
    /\ WF_vars(consume_peek)
    /\ SF_vars(retry_consume_inspect /\ cpc' = "dequeue")
    /\ WF_vars(consume_dequeue)
    /\ SF_vars(retry_produce_check /\ ppc' = "build")
    /\ SF_vars(retry_produce_build /\ ppc' = "publish")
    /\ WF_vars(produce_publish)

LiveSpec == Init /\ [][LiveNext]_vars /\ Fairness

(***************************************************************************)
(* consume_raw_with as a function of the cell it peeks: the consumer's     *)
(* operations applied to a ring whose one cell is published with arbitrary *)
(* contents, a header length beyond the cell included.                     *)
(***************************************************************************)
\* Length bytes of the raw headers.
RawLengths == {0, 1, MIN_DATA_PAYLOAD_BUF, MIN_DATA_PAYLOAD_BUF + 1, 255}

\* First header bytes of the raw headers.
RawTags == 0 .. 3

\* Payload bytes of the raw cells.
RawFills == {0, 170}

RawPackets ==
    { << tag, len >> \o Filled(MIN_DATA_PDU_BUF - HEADER_SIZE, fill) :
        tag \in RawTags, len \in RawLengths, fill \in RawFills }

InitDecode ==
    /\ head = 0
    /\ tail = 1
    /\ buffer \in [0 .. Capacity - 1 -> RawPackets]
    /\ ppc = "idle"
    /\ pn = 0
    /\ cpc = "idle"
    /\ seen = NotSeen
    /\ cresult = None
    /\ obs = [ step |-> "new" ]
    /\ invoked = [ build |-> NoCall, inspect |-> NoCall ]
    /\ cellPdu = [c \in 0 .. Capacity - 1 |-> [ id |-> 1 ]]
    /\ nCommitted = 1
    /\ outstanding = << [ id |-> 1, pdu |-> buffer[Cell(head)] ] >>
    /\ removed = << >>
    /\ accepted = << >>

NextDecode ==
    \/ has_data
    \/ consume_peek
    \/ consume_inspect
    \/ consume_dequeue

SpecDecode == InitDecode /\ [][NextDecode]_vars

(***************************************************************************)
(* Type invariant.                                                         *)
(***************************************************************************)
TypeOK ==
    /\ head \in 0 .. IndexMod - 1
    /\ tail \in 0 .. IndexMod - 1
    /\ \A c \in 0 .. Capacity - 1 : Len(buffer[c]) = MIN_DATA_PDU_BUF
    /\ ppc \in {"idle", "build", "publish", "panicked"}
    /\ cpc \in {"idle", "inspect", "dequeue", "panicked"}
    /\ pn \in 0 .. 255
    /\ nCommitted \in 0 .. MaxPdus

(***************************************************************************)
(* State descriptions used by the properties.                              *)
(***************************************************************************)
\* A committed PDU is in the slot: a produce_dyn call returned Ok and no
\* consume_raw_with call has removed its PDU since.
Occupied == outstanding # << >>

\* The payload_bytes argument of the produce_dyn call that just ran its
\* checks is within range.
InRange(n) == n \in 0 .. MIN_DATA_PAYLOAD_BUF

(***************************************************************************)
(* C1: round trip.  Whenever the inspect callback is called, the header   *)
(* it is given carries as payload_length the number of bytes the build     *)
(* callback of that PDU wrote and as link id the tag it returned, and the  *)
(* payload slice is exactly the bytes written; the read of a slot written  *)
(* by produce_dyn always reaches the callback.                             *)
(***************************************************************************)
C1_RoundTrip ==
    /\ seen.called =>
          LET c == cellPdu[Cell(head)]
          IN  /\ Occupied
              /\ c.id = Head(outstanding).id
              /\ PayloadLength(seen.header) = Len(c.written)
              /\ HeaderLlid(seen.header) = c.llid
              /\ seen.payload = c.written
    /\ obs.step = "consume_inspect" => obs.called /\ seen.called

\* A maximal payload tagged Control reached the inspect callback.
C1_Witness ==
    /\ obs.step = "consume_inspect"
    /\ seen.called
    /\ Len(seen.payload) = MIN_DATA_PAYLOAD_BUF
    /\ seen.payload = WrittenBytes(MIN_DATA_PAYLOAD_BUF, 0)
    /\ HeaderLlid(seen.header) = "Control"
    /\ PayloadLength(seen.header) = MIN_DATA_PAYLOAD_BUF

(***************************************************************************)
(* C2: no loss, no duplication, FIFO.  The PDUs removed are the PDUs 1,    *)
(* 2, ... in the order committed, each intact and removed once, they are   *)
(* exactly the PDUs an inspect callback asked to remove, and the only      *)
(* committed PDU not removed is the one in the slot.                       *)
(***************************************************************************)
C2_Fifo ==
    /\ \A i \in 1 .. Len(removed) : removed[i].id = i /\ removed[i].intact
    /\ \A i \in 1 .. Len(accepted) : accepted[i] = i
    /\ Len(removed) = Len(accepted) - (IF cpc = "dequeue" THEN 1 ELSE 0)
    /\ Len(removed) + Len(outstanding) = nCommitted
    /\ Len(outstanding) <= 1
    /\ Occupied =>
          /\ ConsumerReady(head, tail)
          /\ outstanding[1].id = nCommitted
          /\ outstanding[1].pdu = buffer[Cell(head)]

\* Two PDUs were removed and the third was left queued by its inspect call.
C2_Witness ==
    /\ Len(removed) = 2
    /\ Occupied
    /\ obs.step = "consume_inspect"
    /\ obs.called
    /\ ~obs.consume

(***************************************************************************)
(* C3: capacity 1.  A produce_dyn call with payload_bytes in range made   *)
(* while the slot is occupied returns Err(Eof) and leaves the ring, the    *)
(* queued header and payload included, as it was.                          *)
(***************************************************************************)
C3_FullEof ==
    [][ ( /\ obs'.step = "produce_check"
          /\ Occupied
          /\ InRange(obs'.payload_bytes) )
        => ( /\ obs'.ret = "Eof"
             /\ ppc' = "idle"
             /\ UNCHANGED << ring, history >> ) ]_vars

\* produce_dyn returned Err(Eof) on an occupied slot.
C3_Witness ==
    /\ obs.step = "produce_check"
    /\ obs.ret = "Eof"
    /\ InRange(obs.payload_bytes)
    /\ Occupied

(***************************************************************************)
(* C4: empty queue.  While no committed PDU is in the slot,               *)
(* consume_raw_with returns Err(Eof) without calling inspect, has_data     *)
(* returns false, and both leave the queue empty.                          *)
(***************************************************************************)
C4_EmptyEof ==
    [][ /\ ( obs'.step = "consume_peek" /\ ~Occupied )
            => ( /\ obs'.ret = "Eof"
                 /\ cpc' = "idle"
                 /\ ~Occupied'
                 /\ UNCHANGED << ring, consumer, history >> )
        /\ ( obs'.step = "has_data" /\ ~Occupied )
            => ( /\ obs'.ret = FALSE
                 /\ ~Occupied'
                 /\ UNCHANGED << ring, consumer, history >> ) ]_vars

\* consume_raw_with returned Err(Eof) after the last PDU had been removed.
C4_Witness ==
    /\ obs.step = "consume_peek"
    /\ obs.ret = "Eof"
    /\ removed # << >>
    /\ ~Occupied

(***************************************************************************)
(* C5: non-consuming peek.  A consume_raw_with call whose inspect          *)
(* callback returns consume = false changes nothing in the queue: the PDU  *)
(* stays committed, has_data is true and free_space 0 afterwards, and the  *)
(* inspect callback of the next call, and of any further one, is given    *)
(* the identical header and payload.                                       *)
(***************************************************************************)
C5_NonConsumingPeek ==
    [][ /\ ( obs'.step = "consume_inspect" /\ obs'.called /\ ~obs'.consume )
            => ( /\ cpc' = "idle"
                 /\ UNCHANGED << ring, history >>
                 /\ Occupied'
                 /\ seen'.called
                 /\ HasDataValue(head', tail')
                 /\ FreeSpaceValue(head', tail') = 0 )
        /\ ( obs'.step = "consume_inspect" /\ seen.called )
            => seen' = seen
        /\ ( obs'.step = "has_data" /\ seen.called )
            => obs'.ret = TRUE
        /\ ( obs'.step = "free_space" /\ seen.called )
            => obs'.ret = 0 ]_vars

\* The same PDU was inspected a second time and left queued again.
C5_Witness ==
    /\ obs.step = "consume_inspect"
    /\ obs.called
    /\ obs.again
    /\ ~obs.consume
    /\ Len(seen.payload) > 0

(***************************************************************************)
(* C6: consuming peek.  A consume_raw_with call whose inspect callback     *)
(* returns consume = true empties the slot: has_data is false from then    *)
(* until a produce_dyn call succeeds, and the next produce_dyn call with   *)
(* payload_bytes in range and a build callback that does not fail runs     *)
(* through to Ok.                                                          *)
(***************************************************************************)
C6_ConsumingPeek ==
    [][ /\ obs'.step = "consume_dequeue"
            => ( /\ cpc' = "idle"
                 /\ ~Occupied'
                 /\ ~HasDataValue(head', tail') )
        /\ ( removed # << >> /\ ~Occupied /\ obs'.step = "has_data" )
            => obs'.ret = FALSE
        /\ ( /\ removed # << >>
             /\ ~Occupied
             /\ obs'.step = "produce_check"
             /\ InRange(obs'.payload_bytes) )
            => ( obs'.ret = Pending /\ ppc' = "build" )
        /\ ( obs'.step = "produce_build" /\ obs'.built \in Llids )
            => ( obs'.ret = Pending /\ ppc' = "publish" )
        /\ obs'.step = "produce_publish"
            => ( obs'.ret = "Ok" /\ ppc' = "idle" /\ Occupied' ) ]_vars

\* produce_dyn returned Ok after a PDU had been removed.
C6_Witness ==
    /\ obs.step = "produce_publish"
    /\ obs.ret = "Ok"
    /\ removed # << >>
    /\ Occupied

(***************************************************************************)
(* C7: failing build.  When the build callback returns an error,          *)
(* produce_dyn returns that error, the ring and the committed PDUs are     *)
(* untouched (whatever the callback wrote stays in the local buffer),      *)
(* has_data is false and free_space is the maximum afterwards.             *)
(***************************************************************************)
C7_FailingBuild ==
    [][ ( obs'.step = "produce_build" /\ obs'.built \in Errors )
        => ( /\ obs'.ret = obs'.built
             /\ ppc' = "idle"
             /\ UNCHANGED << ring, history >>
             /\ ~Occupied'
             /\ ~HasDataValue(head', tail')
             /\ FreeSpaceValue(head', tail') = MIN_DATA_PAYLOAD_BUF ) ]_vars

\* A build callback wrote bytes and failed with InvalidValue.
C7_Witness ==
    /\ obs.step = "produce_build"
    /\ obs.built = "InvalidValue"
    /\ obs.wrote
    /\ obs.ret = "InvalidValue"

(***************************************************************************)
(* C8: oversized request.  A produce_dyn call with payload_bytes above    *)
(* MIN_DATA_PAYLOAD_BUF panics, whether the slot is empty or occupied,     *)
(* before the ready check and before build: it returns nothing, the ring   *)
(* and the committed PDUs are untouched, and the panicked call never       *)
(* writes to the ring afterwards.                                          *)
(***************************************************************************)
C8_Oversized ==
    [][ /\ ( /\ obs'.step = "produce_check"
             /\ obs'.payload_bytes > MIN_DATA_PAYLOAD_BUF )
            => ( /\ obs'.ret = "Panic"
                 /\ ppc' = "panicked"
                 /\ UNCHANGED << ring, history >> )
        /\ ppc = "panicked"
            => ( /\ ppc' = "panicked"
                 /\ UNCHANGED << tail, buffer, cellPdu, nCommitted >> ) ]_vars

\* An oversized request panicked while the slot was occupied.
C8_Witness ==
    /\ obs.step = "produce_check"
    /\ obs.payload_bytes = MIN_DATA_PAYLOAD_BUF + 1
    /\ obs.ret = "Panic"
    /\ ppc = "panicked"
    /\ Occupied

(***************************************************************************)
(* C9: free_space returns MIN_DATA_PAYLOAD_BUF when the slot is empty and  *)
(* 0 when it is occupied, never anything else, and changes nothing.        *)
(***************************************************************************)
C9_FreeSpace ==
    [][ obs'.step = "free_space"
        => ( /\ obs'.ret = IF Occupied THEN 0 ELSE MIN_DATA_PAYLOAD_BUF
             /\ UNCHANGED << ring, producer, consumer, invoked, history >> ) ]_vars

\* free_space returned 0 on an occupied slot.
C9_Witness ==
    /\ obs.step = "free_space"
    /\ obs.ret = 0
    /\ Occupied

(***************************************************************************)
(* C10: has_data returns true exactly when a committed PDU is in the      *)
(* slot and changes nothing; whenever no produce_dyn and no               *)
(* consume_raw_with call is in progress, exactly one of has_data() and     *)
(* free_space() > 0 holds.                                                 *)
(***************************************************************************)
Quiescent == ppc = "idle" /\ cpc = "idle"

C10_HasData ==
    /\ [] ( Quiescent =>
              ( HasDataValue(head, tail) <=> ~(FreeSpaceValue(head, tail) > 0) ) )
    /\ [][ obs'.step = "has_data"
           => ( /\ obs'.ret = Occupied
                /\ UNCHANGED << ring, producer, consumer, invoked, history >> ) ]_vars

\* has_data returned true in a quiescent state.
C10_Witness ==
    /\ obs.step = "has_data"
    /\ obs.ret = TRUE
    /\ Quiescent

(***************************************************************************)
(* C11: consume_raw_with returns the result value of the inspect          *)
(* callback, with the flag unset (the PDU stays queued) and with the flag  *)
(* set (the PDU is removed), whether the value is Ok or an error.          *)
(***************************************************************************)
C11_ReturnsResult ==
    [][ /\ ( obs'.step = "consume_inspect" /\ obs'.called /\ ~obs'.consume )
            => ( /\ obs'.ret = obs'.result
                 /\ cpc' = "idle"
                 /\ Occupied'
                 /\ UNCHANGED << ring, removed, outstanding >> )
        /\ ( obs'.step = "consume_inspect" /\ obs'.called /\ obs'.consume )
            => ( /\ obs'.ret = Pending
                 /\ cpc' = "dequeue"
                 /\ cresult' = obs'.result )
        /\ obs'.step = "consume_dequeue"
            => ( /\ obs'.ret = cresult
                 /\ cresult \in InspectResults
                 /\ Len(removed') = Len(removed) + 1
                 /\ ~Occupied' ) ]_vars

\* An error result returned with the flag set: the PDU was removed and the
\* error returned.
C11_Witness ==
    /\ obs.step = "consume_dequeue"
    /\ obs.ret = "InvalidValue"
    /\ Len(removed) = 1
    /\ ~Occupied

(***************************************************************************)
(* C12: malformed length.  When the header of the peeked cell carries a   *)
(* payload length beyond the bytes that follow the header,                 *)
(* consume_raw_with returns an error: it does not panic, does not call     *)
(* inspect and leaves the ring as it was.                                  *)
(***************************************************************************)
MalformedHead ==
    PayloadLength(HeaderParse(ReadSlice(buffer[Cell(head)], 0, HEADER_SIZE)))
        > MIN_DATA_PDU_BUF - HEADER_SIZE

C12_MalformedLength ==
    [][ ( obs'.step = "consume_inspect" /\ MalformedHead )
        => ( /\ obs'.ret \in Errors
             /\ ~obs'.called
             /\ invoked'.inspect = 0
             /\ cpc' = "idle"
             /\ UNCHANGED << ring, seen, history >> ) ]_vars

\* consume_raw_with returned Err(Eof) on a header announcing 28 bytes.
C12_Witness ==
    /\ obs.step = "consume_inspect"
    /\ ~obs.called
    /\ obs.ret = "Eof"
    /\ MalformedHead
    /\ buffer[Cell(head)][2] = MIN_DATA_PAYLOAD_BUF + 1

(***************************************************************************)
(* Vocabulary of the claims about the two contexts.                        *)
(***************************************************************************)
ProducerSteps == {"free_space", "produce_check", "produce_build",
                  "produce_publish"}

ConsumerSteps == {"has_data", "consume_peek", "consume_inspect",
                  "consume_dequeue"}

\* The producer is between its ready check and the end of its call.
Producing == ppc \in {"build", "publish"}

\* The consumer holds the peeked cell.
Holding == cpc \in {"inspect", "dequeue"}

\* The header stored in a cell.
StoredHeader(packet) == HeaderParse(ReadSlice(packet, 0, HEADER_SIZE))

(***************************************************************************)
(* C13: exclusive time-slicing of the cell.  In every interleaving the     *)
(* producer writes the cell only while the ring is empty and before it     *)
(* publishes the tail index, the publish itself leaves the cell alone, and *)
(* the consumer holds the cell only when the index is published: what it   *)
(* holds, and what inspect saw, is the whole cell as it was committed.     *)
(***************************************************************************)
C13_TimeSliced ==
    /\ [] ( /\ Producing => ( head = tail /\ ~Occupied /\ ~Holding )
            /\ Holding => ( /\ ConsumerReady(head, tail)
                            /\ Occupied
                            /\ buffer[Cell(head)] = Head(outstanding).pdu )
            /\ seen.called
                  => ( /\ Occupied
                       /\ DecodeSlot(Head(outstanding).pdu).ok
                       /\ seen.header = DecodeSlot(Head(outstanding).pdu).header
                       /\ seen.payload
                            = DecodeSlot(Head(outstanding).pdu).payload ) )
    /\ [][ /\ buffer' # buffer
                => ( /\ ppc = "build"
                     /\ obs'.step = "produce_build"
                     /\ head = tail
                     /\ UNCHANGED << head, tail >>
                     /\ ~Holding )
           /\ tail' # tail
                => ( /\ ppc = "publish"
                     /\ buffer' = buffer
                     /\ ~Holding ) ]_vars

\* The consumer holds a committed cell while the producer's call is turned
\* away.
C13_Witness ==
    /\ cpc = "inspect"
    /\ obs.step = "produce_check"
    /\ obs.ret = "Eof"
    /\ buffer[Cell(head)] = Head(outstanding).pdu

(***************************************************************************)
(* C14: non-blocking.  Whatever the other context has done, the next step  *)
(* of a call is enabled, and a call only moves forward through its steps:  *)
(* at most three steps for produce and for consume, one for free_space and *)
(* has_data; no step is repeated.                                          *)
(***************************************************************************)
C14_NonBlocking ==
    /\ [] ( /\ ppc = "idle" => ENABLED free_space
            /\ ( ppc = "idle" /\ nCommitted < MaxPdus ) => ENABLED produce_check
            /\ ppc = "build" => ENABLED produce_build
            /\ ppc = "publish" => ENABLED produce_publish
            /\ cpc = "idle" => ( ENABLED has_data /\ ENABLED consume_peek )
            /\ cpc = "inspect" => ENABLED consume_inspect
            /\ cpc = "dequeue" => ENABLED consume_dequeue )
    /\ [][ /\ obs'.step \in ProducerSteps
                => ( /\ cpc' = cpc
                     /\ << ppc, ppc' >> \in
                           { << "idle", "idle" >>, << "idle", "build" >>,
                             << "idle", "panicked" >>, << "build", "idle" >>,
                             << "build", "publish" >>, << "publish", "idle" >> } )
           /\ obs'.step \in ConsumerSteps
                => ( /\ ppc' = ppc
                     /\ << cpc, cpc' >> \in
                           { << "idle", "idle" >>, << "idle", "inspect" >>,
                             << "inspect", "idle" >>, << "inspect", "dequeue" >>,
                             << "dequeue", "idle" >> } ) ]_vars

\* consume returned Eof at once while a produce call was about to publish.
C14_Witness ==
    /\ ppc = "publish"
    /\ cpc = "idle"
    /\ obs.step = "consume_peek"
    /\ obs.ret = "Eof"

(***************************************************************************)
(* C15, as stated: every produce call has called build exactly once and   *)
(* every consume call has called inspect exactly once when it returns.     *)
(***************************************************************************)
C15_ExactlyOnce ==
    /\ ( obs.step \in {"produce_check", "produce_build", "produce_publish"}
         /\ obs.ret # Pending ) => invoked.build = 1
    /\ ( obs.step \in {"consume_peek", "consume_inspect", "consume_dequeue"}
         /\ obs.ret # Pending ) => invoked.inspect = 1

(***************************************************************************)
(* C15, amended: a call invokes its callback at most once, inside the     *)
(* call: build exactly once in a produce call that passed the size         *)
(* assertion and the ready check and not at all in one that did not;       *)
(* inspect exactly once in a consume call that peeked a cell whose length  *)
(* fits and not at all in one that found no cell.  No callback is invoked  *)
(* outside of a call.                                                      *)
(***************************************************************************)
C15_AtMostOnce ==
    /\ [] ( /\ invoked.build \in {NoCall, 0, 1}
            /\ invoked.inspect \in {NoCall, 0, 1}
            /\ ( obs.step = "produce_check" /\ obs.ret # Pending )
                  => invoked.build = 0
            /\ obs.step \in {"produce_build", "produce_publish"}
                  => invoked.build = 1
            /\ obs.step = "consume_peek" /\ obs.ret # Pending
                  => invoked.inspect = 0
            /\ obs.step = "consume_inspect"
                  => invoked.inspect = ( IF obs.called THEN 1 ELSE 0 )
            /\ obs.step = "consume_dequeue" => invoked.inspect = 1 )
    /\ [][ /\ invoked'.build # invoked.build
                => \/ ppc = "idle" /\ obs'.step = "produce_check"
                                  /\ invoked'.build = 0
                   \/ ppc = "build" /\ obs'.step = "produce_build"
                                   /\ invoked.build = 0
           /\ invoked'.inspect # invoked.inspect
                => \/ cpc = "idle" /\ obs'.step = "consume_peek"
                                  /\ invoked'.inspect = 0
                   \/ cpc = "inspect" /\ obs'.step = "consume_inspect"
                                     /\ invoked.inspect = 0 ]_vars

\* A produce call turned away without calling build, after a consume call
\* that called inspect once.
C15_Witness ==
    /\ obs.step = "produce_check"
    /\ obs.ret = "Eof"
    /\ invoked.build = 0
    /\ invoked.inspect = 1

(***************************************************************************)
(* C16: enqueue cannot fail.  From the ready check to the enqueue of the   *)
(* same produce call the ring is not full, the enqueue does not fail and   *)
(* the call does not panic on it; a step of the consumer never raises the  *)
(* number of occupied cells.                                               *)
(***************************************************************************)
C16_EnqueueSucceeds ==
    /\ [] ( ppc = "build" => ~EnqueueFull(head, tail) )
    /\ [][ /\ obs'.step = "produce_build"
                => ( /\ obs'.ret # "Panic"
                     /\ ppc' # "panicked"
                     /\ obs'.built \in Llids => ppc' = "publish" )
           /\ obs'.step = "produce_publish"
                => ( obs'.ret = "Ok" /\ nCommitted' = nCommitted + 1 )
           /\ obs'.step \in ConsumerSteps
                => ( /\ tail' = tail
                     /\ WrappingSub(tail', head') <= WrappingSub(tail, head) )
         ]_vars

\* An enqueue that went through after the consumer had freed the cell.
C16_Witness ==
    /\ obs.step = "produce_build"
    /\ obs.ret = Pending
    /\ ppc = "publish"
    /\ Len(removed) = 1

(***************************************************************************)
(* C17: dequeue cannot fail.  From the peek to the dequeue of the same    *)
(* consume call the ring holds the peeked cell, whatever the producer does *)
(* in between; the dequeue does not panic and removes exactly the cell     *)
(* that was peeked and accepted, with the contents it was committed with.  *)
(***************************************************************************)
C17_DequeueSucceeds ==
    /\ [] ( Holding => ( ConsumerReady(head, tail) /\ Occupied ) )
    /\ [][ /\ obs'.step = "consume_dequeue"
                => ( /\ obs'.ret # "Panic"
                     /\ cpc' = "idle"
                     /\ head' = WrappingAdd(head, 1)
                     /\ accepted # << >>
                     /\ removed' = Append(removed,
                            [ id     |-> accepted[Len(accepted)],
                              intact |-> TRUE ])
                     /\ seen.called
                     /\ seen.header = StoredHeader(buffer[Cell(head)])
                     /\ outstanding' = Tail(outstanding) )
           /\ ( Holding /\ obs'.step \in ProducerSteps )
                => UNCHANGED << ring, consumer, outstanding >> ]_vars

\* A dequeue that went through after a produce call ran into the occupied
\* cell.
C17_Witness ==
    /\ obs.step = "consume_dequeue"
    /\ obs.ret = "OkR"
    /\ ppc = "idle"
    /\ invoked.build = 0
    /\ Len(removed) = 2

(***************************************************************************)
(* C18: measured length.  The payload length in the header of a cell      *)
(* written by produce_dyn is the number of bytes that the build callback   *)
(* wrote, from 0 to MIN_DATA_PAYLOAD_BUF, whatever payload_bytes was       *)
(* asked for: a build that returns an Llid always leads to the enqueue.    *)
(***************************************************************************)
C18_MeasuredLength ==
    /\ [] ( ( Occupied \/ ppc = "publish" )
             => LET cell == IF Occupied THEN Cell(head) ELSE Cell(tail)
                IN  /\ PayloadLength(StoredHeader(buffer[cell]))
                         = Len(cellPdu[cell].written)
                    /\ Len(cellPdu[cell].written) \in 0 .. MIN_DATA_PAYLOAD_BUF
                    /\ cellPdu[cell].payload_bytes \in PayloadBytesArgs )
    /\ [][ ( obs'.step = "produce_build" /\ obs'.built \in Llids )
             => ( /\ ppc' = "publish"
                  /\ cellPdu'[Cell(tail)].payload_bytes = pn ) ]_vars

\* A committed PDU of 27 bytes from a call that asked for 0 bytes.
C18_Witness ==
    /\ Occupied
    /\ cellPdu[Cell(head)].payload_bytes = 0
    /\ Len(cellPdu[Cell(head)].written) = MIN_DATA_PAYLOAD_BUF
    /\ PayloadLength(StoredHeader(buffer[Cell(head)])) = MIN_DATA_PAYLOAD_BUF

(***************************************************************************)
(* C19: length invariant.  The header of a committed cell carries a       *)
(* payload length of at most MIN_DATA_PAYLOAD_BUF, even when the build     *)
(* callback handed the writer more bytes than fit, and so header and       *)
(* payload fit the cell and the payload read of consume_raw_with does not  *)
(* fail on it: inspect is called.                                          *)
(***************************************************************************)
C19_LengthInvariant ==
    /\ [] ( Occupied
             => /\ PayloadLength(StoredHeader(buffer[Cell(head)]))
                     <= MIN_DATA_PAYLOAD_BUF
                /\ HEADER_SIZE + PayloadLength(StoredHeader(buffer[Cell(head)]))
                     <= MIN_DATA_PDU_BUF
                /\ Len(buffer[Cell(head)]) = MIN_DATA_PDU_BUF
                /\ DecodeSlot(buffer[Cell(head)]).ok )
    /\ [][ obs'.step = "consume_inspect"
             => ( obs'.called /\ obs'.ret # "Panic" ) ]_vars

\* inspect was called on a PDU whose build handed the writer one byte too
\* many: nothing of it arrived.
C19_Witness ==
    /\ obs.step = "consume_inspect"
    /\ obs.called
    /\ cellPdu[Cell(head)].payload_bytes = MIN_DATA_PAYLOAD_BUF
    /\ cellPdu[Cell(head)].offered = MIN_DATA_PAYLOAD_BUF + 1
    /\ cellPdu[Cell(head)].written = << >>
    /\ Occupied
    /\ PayloadLength(StoredHeader(buffer[Cell(head)])) = 0

(***************************************************************************)
(* C20: progress under retry.  With a consumer that keeps consuming and    *)
(* accepting and a producer that keeps retrying with sizes in range, every *)
(* produce attempt is followed by a committed PDU, and every committed PDU *)
(* is delivered to inspect and removed; and in no state would produce_dyn  *)
(* fail with Eof while consume_raw_with fails with Eof.                    *)
(***************************************************************************)
C20_Progress ==
    /\ [] ~( NoRoom(head, tail) /\ ~PeekSome(head, tail) )
    /\ \A k \in 0 .. MaxPdus - 1 :
          ( nCommitted = k ) ~> ( nCommitted > k \/ ppc = "panicked" )
    /\ \A i \in 1 .. MaxPdus :
          ( nCommitted >= i )
             ~> ( /\ \E j \in 1 .. Len(accepted) : accepted[j] = i
                  /\ \E j \in 1 .. Len(removed) : removed[j].id = i )

\* The second PDU was committed after a produce call was turned away and
\* the first PDU was removed.
C20_Witness ==
    /\ obs.step = "produce_publish"
    /\ obs.ret = "Ok"
    /\ nCommitted = 2
    /\ Len(removed) = 1
    /\ Occupied

====
